---- MODULE Spec2Model ----
(***************************************************************************)
(* The compatibility retrieval engine of app.py: the feature snapshot is   *)
(* loaded (load_features), its rows are rescaled (normalize_features), and *)
(* find_compatible_items answers per-category top-k requests against it.   *)
(*                                                                         *)
(* Numbers.  Embeddings are floats in the program.  Here a vector is a     *)
(* tuple of integers and a unit vector has squared length UnitNorm^2, so   *)
(* a similarity s of the program is the integer s * UnitNorm^2 here (1.0   *)
(* is 25).  The raw vectors are chosen with integer lengths, so the        *)
(* rescaling is exact.  Rows are numbered from 1 (Python's row i is row    *)
(* i + 1); category indices keep Python's numbering from 0.                *)
(***************************************************************************)
EXTENDS Integers, Sequences, FiniteSets, TLC

\* Largest number of entries of a sequence of the snapshot.
MaxN == 2

\* Length of a unit vector in the fixed-point representation.
UnitNorm == 5

\* Longest list of requested category names.
MaxTargets == 2

\* find_compatible_items(..., top_k=5), also what the upload handler passes.
top_k_default == 5

Fields == {"features", "labels", "image_paths", "classes"}

RawVectors == {<<0, 0>>, <<3, 4>>, <<8, 6>>}
Queries == {<<3, 4>>, <<4, 3>>, <<5, 0, 0>>}
Names == {"tops", "pants", "shoes"}
ClassLists == {<<"tops", "pants">>, <<"tops">>, <<"tops", "tops">>}
TopKs == {1, 2, top_k_default}
Paths == <<"a.jpg", "b.jpg", "c.jpg", "d.jpg", "e.jpg">>

None == <<>>

VARIABLES
    pc,                  \* where the script is
    feature_file,        \* the pickled snapshot on disk
    all_features,        \* data['features']
    all_labels,          \* data['labels']
    all_image_paths,     \* data['image_paths']
    classes,             \* data['classes']
    normalized_features, \* normalize_features(all_features)
    topk_ties,           \* how this build's torch.topk orders equal values
    query_feature,       \* arguments of the last find_compatible_items call
    target_categories,
    top_k,
    compatible_items,    \* what the call returned
    error,               \* the exception it raised, "" if none
    warnings             \* st.warning calls it made

vars == <<pc, feature_file, all_features, all_labels, all_image_paths, classes,
          normalized_features, topk_ties, query_feature, target_categories,
          top_k, compatible_items, error, warnings>>

store == <<all_features, all_labels, all_image_paths, classes, normalized_features>>
request == <<query_feature, target_categories, top_k>>
answer == <<compatible_items, error, warnings>>

----------------------------------------------------------------------------
\* Sequences.

SeqsUpTo(S, n) == UNION {[1..m -> S] : m \in 0..n}
NonEmptySeqsUpTo(S, n) == UNION {[1..m -> S] : m \in 1..n}
Range(s) == {s[i] : i \in DOMAIN s}
NoDuplicates(s) == \A i, j \in DOMAIN s : s[i] = s[j] => i = j

RECURSIVE SortedSeq(_)
SortedSeq(S) ==
    IF S = {} THEN <<>>
    ELSE LET m == CHOOSE x \in S : \A y \in S : x <= y
         IN <<m>> \o SortedSeq(S \ {m})

----------------------------------------------------------------------------
\* Vectors.

RECURSIVE DotUpTo(_, _, _)
DotUpTo(u, v, n) == IF n = 0 THEN 0 ELSE DotUpTo(u, v, n - 1) + u[n] * v[n]
Dot(u, v) == DotUpTo(u, v, Len(u))

ISqrt(n) == CHOOSE r \in 0..n : r * r <= n /\ (r + 1) * (r + 1) > n
L2Norm(v) == ISqrt(Dot(v, v))

\* sklearn.preprocessing.normalize(X, axis=1): each row divided by its L2
\* norm, a zero norm being replaced by 1 (the row stays all zero, no error).
NormalizeRow(v) ==
    LET norm == IF L2Norm(v) = 0 THEN 1 ELSE L2Norm(v)
    IN  [i \in 1..Len(v) |-> (v[i] * UnitNorm) \div norm]

normalize(X) == [r \in 1..Len(X) |-> NormalizeRow(X[r])]

----------------------------------------------------------------------------
\* find_compatible_items.

\* classes.index(cat): the first position holding cat, counted from 0.
ClassIndex(cat) ==
    (CHOOSE i \in 1..Len(classes) :
        classes[i] = cat /\ \A j \in 1..(i - 1) : classes[j] # cat) - 1

\* [classes.index(cat) for cat in target_categories if cat in classes]
RECURSIVE TargetIndices(_)
TargetIndices(targets) ==
    IF targets = <<>> THEN <<>>
    ELSE (IF Head(targets) \in Range(classes)
             THEN <<ClassIndex(Head(targets))>> ELSE <<>>)
         \o TargetIndices(Tail(targets))

\* torch.matmul(query_feature, all_features.T).squeeze(0): one dot product
\* per row; the shapes (1, Dq) and (D, N) must agree or matmul raises.
ShapesAgree(q, feats) == \A r \in 1..Len(feats) : Len(feats[r]) = Len(q)
Similarities(q, feats) == [r \in 1..Len(feats) |-> Dot(q, feats[r])]

\* [i for i, label in enumerate(all_labels) if label == cat_idx]
CatItemIndicesOther(labels, cat_idx) ==
    SortedSeq({i \in 1..Len(labels) : labels[i] # cat_idx})
CatItemIndices(labels, cat_idx) ==
    SortedSeq({i \in 1..Len(labels) : labels[i] = cat_idx})

\* if not cat_item_indices: continue
SkipCategoryNever(cat_item_indices) == FALSE
SkipCategory(cat_item_indices) == cat_item_indices = <<>>

\* min(top_k, len(cat_similarities))
TopKCountAll(k, n) == n
TopKCount(k, n) == IF k < n THEN k ELSE n

\* torch.topk(cat_similarities, topk): the k largest values, largest first.
\* torch.topk does not specify the order of equal values: its CPU kernel
\* selects with an unstable nth_element and sort, so the order depends on the
\* library the build links (and on the length of the input), but not on the
\* call.  A build is one choice of topk_ties: of two equal values the one at
\* the lower position comes first, or the one at the higher position.
BetterSmallest(vals, i, j) ==
    \/ vals[i] < vals[j]
    \/ vals[i] = vals[j] /\ (IF topk_ties = "first" THEN i < j ELSE i > j)
Better(vals, i, j) ==
    \/ vals[i] > vals[j]
    \/ vals[i] = vals[j] /\ (IF topk_ties = "first" THEN i < j ELSE i > j)

RECURSIVE TopKFrom(_, _, _)
TopKFrom(vals, S, k) ==
    IF k = 0 THEN <<>>
    ELSE LET b == CHOOSE i \in S : \A j \in S \ {i} : Better(vals, i, j)
         IN <<b>> \o TopKFrom(vals, S \ {b}, k - 1)
TopK(vals, k) == TopKFrom(vals, 1..Len(vals), k)

\* One pass of the loop over target_indices: "skip" (continue), an entry of
\* the dictionary, or the IndexError of an index past the end of the
\* similarity vector or of all_image_paths.
CategoryPass(cat_idx, similarities, labels, paths, k) ==
    LET cat_item_indices == CatItemIndices(labels, cat_idx)
    IN  IF SkipCategory(cat_item_indices) THEN [status |-> "skip"]
        ELSE IF \E i \in Range(cat_item_indices) : i > Len(similarities)
        THEN [status |-> "IndexError"]
        ELSE
          LET cat_similarities ==
                  [j \in 1..Len(cat_item_indices) |-> similarities[cat_item_indices[j]]]
              topk == TopKCount(k, Len(cat_similarities))
              topk_indices == TopK(cat_similarities, topk)
              topk_original_indices ==
                  [j \in 1..topk |-> cat_item_indices[topk_indices[j]]]
          IN  IF \E j \in 1..topk : topk_original_indices[j] > Len(paths)
              THEN [status |-> "IndexError"]
              ELSE [status |-> "ok",
                    category |-> classes[cat_idx + 1],
                    rows |-> topk_original_indices,
                    items |-> [j \in 1..topk |-> paths[topk_original_indices[j]]]]

IsEntry(pass) == pass.status = "ok"
Entry(pass) == [category |-> pass.category, rows |-> pass.rows, items |-> pass.items]
RECURSIVE Entries(_)
Entries(passes) ==
    IF passes = <<>> THEN <<>>
    ELSE (IF IsEntry(Head(passes)) THEN <<Entry(Head(passes))>> ELSE <<>>)
         \o Entries(Tail(passes))

\* The call: what it returns, the exception it raises, the warnings it shows.
\* The dictionary is the sequence of its entries in insertion order; an entry
\* carries, beside the paths the program returns, the rows they came from.
find_compatible_items(q, feats, labels, paths, targets, k) ==
    LET target_indices == TargetIndices(targets)
    IN  IF target_indices = <<>>
        THEN [compatibility |-> <<>>, error |-> "", warnings |-> 1]
        ELSE IF ~ShapesAgree(q, feats)
        THEN [compatibility |-> <<>>, error |-> "RuntimeError", warnings |-> 0]
        ELSE
          LET similarities == Similarities(q, feats)
              passes == [t \in 1..Len(target_indices) |->
                            CategoryPass(target_indices[t], similarities, labels, paths, k)]
          IN  IF \E t \in 1..Len(passes) : passes[t].status = "IndexError"
              THEN [compatibility |-> <<>>, error |-> "IndexError", warnings |-> 0]
              ELSE [compatibility |-> Entries(passes), error |-> "", warnings |-> 0]

----------------------------------------------------------------------------
\* The snapshot file and the requests.

Labels == {0, 1}
FeatureMatrices == NonEmptySeqsUpTo(RawVectors, MaxN)
LabelSeqs == NonEmptySeqsUpTo(Labels, MaxN)
PathSeqs == {SubSeq(Paths, 1, p) : p \in 1..MaxN}

\* What pickle.load can return: the four sequences, or the same with one key
\* missing.  Nothing ties their lengths to each other; here the labels run
\* at most one past the features and the paths lack at most the last one.
Records ==
    {d \in [features : FeatureMatrices, labels : LabelSeqs,
            image_paths : PathSeqs, classes : ClassLists] :
        /\ Len(d.labels) - Len(d.features) \in {0, 1}
        /\ Len(d.features) - Len(d.image_paths) \in {0, 1}}
Without(d, f) == [g \in Fields \ {f} |-> d[g]]
FeatureFiles ==
    {[exists |-> FALSE, data |-> None]}
    \cup {[exists |-> TRUE, data |-> d] : d \in Records}
    \cup {[exists |-> TRUE, data |-> Without(d, f)] : d \in Records, f \in Fields}

TargetLists == {t \in SeqsUpTo(Names, MaxTargets) : NoDuplicates(t)}

----------------------------------------------------------------------------
\* The script.

Init ==
    /\ pc = "start"
    /\ feature_file \in FeatureFiles
    /\ all_features = None
    /\ all_labels = None
    /\ all_image_paths = None
    /\ classes = None
    /\ normalized_features = None
    /\ topk_ties \in {"first", "last"}
    /\ query_feature = None
    /\ target_categories = None
    /\ top_k = 0
    /\ compatible_items = <<>>
    /\ error = ""
    /\ warnings = 0

\* load_features(): st.stop() when the file is missing, a KeyError when the
\* record lacks a key, otherwise the four values as they are in the file.
LoadFeatures ==
    /\ pc = "start"
    /\ IF ~feature_file.exists
       THEN /\ pc' = "stopped"
            /\ UNCHANGED <<all_features, all_labels, all_image_paths, classes>>
       ELSE IF DOMAIN feature_file.data # Fields
       THEN /\ pc' = "KeyError"
            /\ UNCHANGED <<all_features, all_labels, all_image_paths, classes>>
       ELSE /\ pc' = "loaded"
            /\ all_features' = feature_file.data["features"]
            /\ all_labels' = feature_file.data["labels"]
            /\ all_image_paths' = feature_file.data["image_paths"]
            /\ classes' = feature_file.data["classes"]
    /\ UNCHANGED <<feature_file, normalized_features, topk_ties, request, answer>>

\* normalized_features = normalize_features(all_features)
NormalizeFeatures ==
    /\ pc = "loaded"
    /\ normalized_features' = normalize(all_features)
    /\ pc' = "serving"
    /\ UNCHANGED <<feature_file, all_features, all_labels, all_image_paths,
                   classes, topk_ties, request, answer>>

\* find_compatible_items assigns to none of the store's names.
ReadOnlyPopsPaths ==
    /\ all_image_paths' = Tail(all_image_paths)
    /\ UNCHANGED <<all_features, all_labels, classes, normalized_features>>
ReadOnly ==
    UNCHANGED <<all_features, all_labels, all_image_paths, classes, normalized_features>>

\* compatible_items = find_compatible_items(query_feature,
\*     normalized_features, all_labels, all_image_paths, target_categories, top_k)
\* inside the handler's try: an exception is caught and reported.
Call(q, targets, k) ==
    LET r == find_compatible_items(q, normalized_features, all_labels,
                                   all_image_paths, targets, k)
    IN  /\ query_feature' = q
        /\ target_categories' = targets
        /\ top_k' = k
        /\ compatible_items' = r.compatibility
        /\ error' = r.error
        /\ warnings' = r.warnings
        /\ pc' = "answered"
        /\ ReadOnly
        /\ UNCHANGED <<feature_file, topk_ties>>

\* A request arrives.
Upload ==
    /\ pc = "serving"
    /\ \E q \in Queries, targets \in TargetLists, k \in TopKs : Call(q, targets, k)

\* The script runs again on the same inputs.
Rerun ==
    /\ pc = "answered"
    /\ Call(query_feature, target_categories, top_k)

\* The upload is removed: the script takes its else branch.
ClearUpload ==
    /\ pc = "answered"
    /\ pc' = "serving"
    /\ query_feature' = None
    /\ target_categories' = None
    /\ top_k' = 0
    /\ compatible_items' = <<>>
    /\ error' = ""
    /\ warnings' = 0
    /\ UNCHANGED <<feature_file, all_features, all_labels, all_image_paths,
                   classes, normalized_features, topk_ties>>

Next == LoadFeatures \/ NormalizeFeatures \/ Upload \/ Rerun \/ ClearUpload

Spec == Init /\ [][Next]_vars

----------------------------------------------------------------------------
\* Vocabulary of the properties.

Answered == pc = "answered"
Returned == Answered /\ error = ""
Keys == {compatible_items[e].category : e \in DOMAIN compatible_items}
Requested == Range(target_categories)
Unknown == Requested \ Range(classes)

\* The index of a name in classes, and the rows the labels put under it.
IndexOf(name) == CHOOSE c \in 0..(Len(classes) - 1) :
    classes[c + 1] = name /\ \A b \in 0..(c - 1) : classes[b + 1] # name
Members(name) == {i \in 1..Len(all_labels) : all_labels[i] = IndexOf(name)}
Score(i) == Dot(query_feature, normalized_features[i])
One == UnitNorm * UnitNorm
Smaller(a, b) == IF a < b THEN a ELSE b

DimensionMatches == ShapesAgree(query_feature, normalized_features)
AllUnit == \A i \in 1..Len(normalized_features) :
    Dot(normalized_features[i], normalized_features[i]) = One
StoreValid ==
    /\ Len(all_features) = Len(all_labels)
    /\ Len(all_labels) = Len(all_image_paths)
    /\ \A i \in 1..Len(all_labels) : all_labels[i] \in 0..(Len(classes) - 1)
    /\ NoDuplicates(classes)

----------------------------------------------------------------------------
\* C1: the keys of a returned result are exactly the requested names that
\* occur in classes and have at least one row labelled with their index; no
\* key maps to an empty list, and an empty request returns the empty result
\* without an exception.
C1_KeysAreResolvedNonEmpty ==
    /\ Returned =>
        /\ Keys = {n \in Requested \cap Range(classes) : Members(n) # {}}
        /\ \A e \in DOMAIN compatible_items : compatible_items[e].items # <<>>
    /\ (Answered /\ target_categories = <<>>) =>
        (error = "" /\ compatible_items = <<>>)

\* A request naming a category with rows and a category without any.
C1_Witness ==
    /\ Returned
    /\ Keys # {}
    /\ \E n \in Requested \cap Range(classes) : Members(n) = {} /\ n \notin Keys

\* C2: every returned list is min(top_k, number of rows of its category) long.
C2_LengthIsMin ==
    Returned => \A e \in DOMAIN compatible_items :
        LET entry == compatible_items[e]
        IN  /\ Len(entry.items) = Smaller(top_k, Cardinality(Members(entry.category)))
            /\ Len(entry.rows) = Len(entry.items)

\* A category with fewer rows than top_k comes back whole.
C2_Witness ==
    /\ Returned
    /\ \E e \in DOMAIN compatible_items :
           /\ Cardinality(Members(compatible_items[e].category)) < top_k
           /\ Cardinality(Members(compatible_items[e].category)) > 1
           /\ Len(compatible_items[e].items) = Cardinality(Members(compatible_items[e].category))

\* C3: within a returned list the scores do not increase, equal scores come in
\* ascending row order, and a row left out at the cut-off with the score of a
\* returned row has the higher row number.  Stated of a store that satisfies
\* the data-model invariants and holds unit rows only.
C3_OrderedTiesAscending ==
    (Returned /\ StoreValid /\ AllUnit) => \A e \in DOMAIN compatible_items :
        LET rows == compatible_items[e].rows
        IN  /\ \A a, b \in DOMAIN rows : a < b =>
                \/ Score(rows[a]) > Score(rows[b])
                \/ Score(rows[a]) = Score(rows[b]) /\ rows[a] < rows[b]
            /\ \A m \in Members(compatible_items[e].category) \ Range(rows) :
                \A a \in DOMAIN rows : Score(m) = Score(rows[a]) => rows[a] < m

\* C4: each requested name that is not in classes gets one warning of its own,
\* no exception is raised for it, and a request of unknown names only returns
\* the empty result.
C4_OneWarningPerUnknownName ==
    (Answered /\ DimensionMatches /\ StoreValid /\ Unknown # {}) =>
        /\ error = ""
        /\ warnings = Cardinality(Unknown)
        /\ (Requested \subseteq Unknown => compatible_items = <<>>)

\* C5: a query of another dimension than the store's rows ends in an error and
\* returns nothing, whatever the requested categories are.
C5_DimensionMismatchFails ==
    (Answered /\ ~DimensionMatches) => (error # "" /\ compatible_items = <<>>)

\* C6: every row of the store that requests are answered from has unit norm.
C6_ServedRowsAreUnit ==
    pc \in {"serving", "answered"} => AllUnit

\* C7: a store that load_features hands on satisfies the data-model
\* invariants: equal lengths, labels inside [0, C), no duplicate class name.
C7_LoadedStoreIsValid ==
    pc \in {"loaded", "serving", "answered"} => StoreValid

\* C8: no call changes the store, and a call repeated with the same arguments
\* returns the same result: the same keys in the same order with the same
\* items in the same order.
C8_StoreFrozenCallsRepeatable ==
    [][/\ pc \in {"serving", "answered"} => store' = store
       /\ (pc = "answered" /\ pc' = "answered" /\ request' = request)
              => answer' = answer]_vars

\* A returned list holding two rows of equal score, the order of which the
\* build decides, with the call about to be repeated.
C8_Witness ==
    /\ Returned
    /\ \E e \in DOMAIN compatible_items :
           \E a, b \in DOMAIN compatible_items[e].rows :
               a # b /\ Score(compatible_items[e].rows[a]) = Score(compatible_items[e].rows[b])
    /\ ENABLED Rerun

\* The rows of a valid, unit-normalized store that the query is a copy of
\* and whose category is requested.
QueriedRows ==
    {i \in 1..Len(normalized_features) :
        /\ normalized_features[i] = query_feature
        /\ classes[all_labels[i] + 1] \in Requested}
EntryOf(name) ==
    CHOOSE e \in DOMAIN compatible_items : compatible_items[e].category = name
Twins(i) == {j \in Members(classes[all_labels[i] + 1]) \ {i} :
                normalized_features[j] = normalized_features[i]}

C10_TopSelectionOfPartition ==
    Returned => \A e \in DOMAIN compatible_items :
        LET entry == compatible_items[e]
        IN  /\ \A a \in DOMAIN entry.rows :
                /\ entry.rows[a] \in Members(entry.category)
                /\ entry.items[a] = all_image_paths[entry.rows[a]]
            /\ NoDuplicates(entry.rows)
            /\ \A m \in Members(entry.category) \ Range(entry.rows) :
                \A a \in DOMAIN entry.rows : Score(m) <= Score(entry.rows[a])

\* A row of the category is left out at the cut-off and scores strictly lower
\* than the returned one.
C10_Witness ==
    /\ Returned
    /\ \E e \in DOMAIN compatible_items :
           LET entry == compatible_items[e]
           IN  \E m \in Members(entry.category) \ Range(entry.rows) :
                   Score(m) < Score(entry.rows[1])

====
